---- MODULE Spec2Model ----
(***************************************************************************)
(* The staffing-directory service of backend/app: the people table of      *)
(* database.py, the HTTP handlers of routers/people.py and routers/beach.py,*)
(* the service functions of services.py, the policy documents of           *)
(* routers/documents.py, and init_database of database.py.                 *)
(*                                                                         *)
(* Every handler opens a connection of its own (get_db_connection,         *)
(* get_database) and runs as a coroutine: between two awaited statements   *)
(* another request may run.  One action of the model is one awaited        *)
(* statement together with the synchronous code that follows it up to the  *)
(* next await.  An INSERT/UPDATE/DELETE and the commit that follows it are  *)
(* one action: SQLite shows the change to other connections at the commit  *)
(* and serialises writers meanwhile.                                       *)
(*                                                                         *)
(* Text is a sequence of one-character strings.  A timestamp is an         *)
(* integer instant: datetime.now().isoformat() and the text SQLite stores  *)
(* for it are ordered as the instants are.  datetime.now() and             *)
(* datetime.utcnow() read the same non-decreasing clock (a UTC host).      *)
(* Optional[T] is a set with at most one element: None is {}.              *)
(***************************************************************************)
EXTENDS Integers, Sequences, FiniteSets, TLC

VARIABLES
    people,     \* the people table: rowid -> row, DOMAIN = the stored ids
    seq,        \* sqlite_sequence of people: the largest rowid ever assigned
    now,        \* the system clock
    pc,         \* per client: the await its handler is suspended at
    local,      \* per client: the handler's local variables
    resp,       \* what the last step returned to its caller, if anything
    fresh,      \* history: the last INSERT, until another mutation commits
    fs,         \* the policies directory: file name -> what is there
    doc,        \* what the last request of the documents router was answered
    schema      \* the tables and indexes of the database file, by name

vars == <<people, seq, now, pc, local, resp, fresh, fs, doc, schema>>

----------------------------------------------------------------------------
(* Bounds of the model. *)

MaxId == 2          \* rowids the table may assign
MaxTime == 2        \* instants the clock may show
MaxConcId == 1      \* rowids the table may assign while two clients race

Times == 1..MaxTime
Ids == 1..MaxId
Clients == {"c1", "c2"}

----------------------------------------------------------------------------
(* models.py *)

MAX_LENGTH == 100
MIN_LENGTH == 1

StaffingStatus == {"staffed", "bench", "available"}

Rep(ch, n) == [i \in 1..n |-> ch]

IsSpace(ch) == ch = " "

RECURSIVE LStrip(_)
LStrip(s) == IF Len(s) > 0 /\ IsSpace(s[1]) THEN LStrip(Tail(s)) ELSE s

RECURSIVE RStrip(_)
RStrip(s) ==
    IF Len(s) > 0 /\ IsSpace(s[Len(s)]) THEN RStrip(SubSeq(s, 1, Len(s) - 1)) ELSE s

\* str.strip()
Strip(s) == RStrip(LStrip(s))

\* A faulty variant of TextFieldOk: the Field bounds without the validator's
\* test for blank text.
TextFieldOkNoBlankCheck(v) ==
    /\ Len(v) >= MIN_LENGTH
    /\ Len(v) <= MAX_LENGTH

\* Field(..., min_length=1, max_length=100) on the value as sent, then
\* validate_text_fields: `if not v or not v.strip(): raise ValueError`.
TextFieldOk(v) ==
    /\ Len(v) >= MIN_LENGTH
    /\ Len(v) <= MAX_LENGTH
    /\ Len(Strip(v)) > 0

\* PersonCreate(**body) raises no ValidationError.
PersonCreateValid(raw) ==
    /\ TextFieldOk(raw.name)
    /\ TextFieldOk(raw.role)
    /\ TextFieldOk(raw.department)
    /\ raw.staffing_status \in StaffingStatus

\* A faulty variant of PersonCreate: the validator checks and returns v as sent.
PersonCreateUnstripped(raw) ==
    [name            |-> raw.name,
     role            |-> raw.role,
     department      |-> raw.department,
     staffing_status |-> raw.staffing_status]

\* The PersonCreate model: validate_text_fields returns v.strip().
PersonCreate(raw) ==
    [name            |-> Strip(raw.name),
     role            |-> Strip(raw.role),
     department      |-> Strip(raw.department),
     staffing_status |-> raw.staffing_status]

\* A faulty variant of PersonUpdateValid: staffing_status declared Optional[str].
PersonUpdateValidAnyStatus(raw) ==
    /\ \A v \in raw.name : TextFieldOk(v)
    /\ \A v \in raw.role : TextFieldOk(v)
    /\ \A v \in raw.department : TextFieldOk(v)

\* PersonUpdate(**body) raises no ValidationError: a field left out or sent
\* as null is None, and None passes.
PersonUpdateValid(raw) ==
    /\ \A v \in raw.name : TextFieldOk(v)
    /\ \A v \in raw.role : TextFieldOk(v)
    /\ \A v \in raw.department : TextFieldOk(v)
    /\ raw.staffing_status \subseteq StaffingStatus

\* A faulty variant of PersonUpdate: the validator returns v as sent.
PersonUpdateUnstripped(raw) ==
    [name            |-> raw.name,
     role            |-> raw.role,
     department      |-> raw.department,
     staffing_status |-> raw.staffing_status]

\* The PersonUpdate model: `return v.strip() if v else v`.
PersonUpdate(raw) ==
    [name            |-> {Strip(v) : v \in raw.name},
     role            |-> {Strip(v) : v \in raw.role},
     department      |-> {Strip(v) : v \in raw.department},
     staffing_status |-> raw.staffing_status]

\* Person(id=row["id"], ..., created_at=datetime.fromisoformat(row["created_at"]), ...)
Person(row) ==
    [id              |-> row.id,
     name            |-> row.name,
     role            |-> row.role,
     department      |-> row.department,
     staffing_status |-> row.staffing_status,
     created_at      |-> row.created_at,
     updated_at      |-> row.updated_at]

----------------------------------------------------------------------------
(* The request bodies the clients send. *)

Opt(S) == {{}} \cup {{v} : v \in S}

\* A PUT body that names no field.
NoPatch == [name |-> {}, role |-> {}, department |-> {}, staffing_status |-> {}]

\* A scenario: the bodies and ids its requests draw from, split by what the
\* request models make of them, the rowids its table may assign, and whether
\* a request in flight remembers the table it started from.
Scenario(creates, updates, maxId) ==
    [validCreates   |-> {raw \in creates : PersonCreateValid(raw)},
     invalidCreates |-> {raw \in creates : ~PersonCreateValid(raw)},
     validUpdates   |-> {raw \in updates : PersonUpdateValid(raw)},
     invalidUpdates |-> {raw \in updates : ~PersonUpdateValid(raw)},
     statuses       |-> {raw.staffing_status : raw \in creates},
     ids            |-> 1..maxId,
     maxId          |-> maxId,
     history        |-> FALSE]

NameInputs == {<<"A">>, <<" ", "B", " ">>, <<>>, <<" ", " ">>}
RoleInputs == {<<"E", " ">>, Rep("r", MAX_LENGTH + 1)}
DeptInputs == {<<"D">>, <<" ">> \o Rep("d", MAX_LENGTH)}
StatusInputs == StaffingStatus \cup {"vacation"}

\* A body with every field valid.
GoodCreate ==
    [name |-> <<"A">>, role |-> <<"E", " ">>, department |-> <<"D">>,
     staffing_status |-> "bench"]

\* One client at a time, every field exercised: the bodies with every field
\* valid, and the bodies that differ from GoodCreate (from the empty patch)
\* in one field, valid or not.
Wide ==
    Scenario([name : {v \in NameInputs : TextFieldOk(v)},
              role : {v \in RoleInputs : TextFieldOk(v)},
              department : {v \in DeptInputs : TextFieldOk(v)},
              staffing_status : StaffingStatus]
               \cup {[GoodCreate EXCEPT !.name = v] : v \in NameInputs}
               \cup {[GoodCreate EXCEPT !.role = v] : v \in RoleInputs}
               \cup {[GoodCreate EXCEPT !.department = v] : v \in DeptInputs}
               \cup {[GoodCreate EXCEPT !.staffing_status = v] : v \in StatusInputs},
             [name : Opt({v \in NameInputs : TextFieldOk(v)}),
              role : Opt({v \in RoleInputs : TextFieldOk(v)}),
              department : Opt({v \in DeptInputs : TextFieldOk(v)}),
              staffing_status : Opt(StaffingStatus)]
               \cup {[NoPatch EXCEPT !.name = {v}] : v \in NameInputs}
               \cup {[NoPatch EXCEPT !.role = {v}] : v \in RoleInputs}
               \cup {[NoPatch EXCEPT !.department = {v}] : v \in DeptInputs}
               \cup {[NoPatch EXCEPT !.staffing_status = {v}] : v \in StatusInputs},
             MaxId)

\* Two clients in flight on one Person.
Narrow ==
    Scenario([name : {<<"A">>, <<>>}, role : {<<"E", " ">>}, department : {<<"D">>},
              staffing_status : {"bench"}],
             [name : Opt({<<" ", "B", " ">>, <<>>}), role : {{}}, department : {{}},
              staffing_status : Opt({"staffed", "available"})],
             MaxConcId)

----------------------------------------------------------------------------
(* database.py: the people table and its statements. *)

\* A faulty variant of InsertRow: the id column without AUTOINCREMENT, where
\* the new rowid follows the largest one stored, not the largest ever assigned.
InsertRowAfterLargestStored(tbl, last, p, created, updated) ==
    LET top == IF DOMAIN tbl = {} THEN 0
               ELSE CHOOSE i \in DOMAIN tbl : \A j \in DOMAIN tbl : j <= i
        id  == top + 1
        row == [id |-> id, name |-> p.name, role |-> p.role,
                department |-> p.department,
                staffing_status |-> p.staffing_status,
                created_at |-> created, updated_at |-> updated]
    IN  [i \in DOMAIN tbl \cup {id} |-> IF i = id THEN row ELSE tbl[i]]

\* A faulty variant of InsertRow: the id taken as the number of rows stored
\* plus one.
InsertRowAfterRowCount(tbl, last, p, created, updated) ==
    LET id  == Cardinality(DOMAIN tbl) + 1
        row == [id |-> id, name |-> p.name, role |-> p.role,
                department |-> p.department,
                staffing_status |-> p.staffing_status,
                created_at |-> created, updated_at |-> updated]
    IN  [i \in DOMAIN tbl \cup {id} |-> IF i = id THEN row ELSE tbl[i]]

\* INSERT INTO people (name, role, department, staffing_status, created_at,
\* updated_at) VALUES (?, ?, ?, ?, ?, ?): id INTEGER PRIMARY KEY AUTOINCREMENT
\* takes the rowid after the largest ever assigned.
InsertRow(tbl, last, p, created, updated) ==
    LET id == last + 1
        row == [id |-> id, name |-> p.name, role |-> p.role,
                department |-> p.department,
                staffing_status |-> p.staffing_status,
                created_at |-> created, updated_at |-> updated]
    IN  [i \in DOMAIN tbl \cup {id} |-> IF i = id THEN row ELSE tbl[i]]

\* A faulty variant of SelectById: the SELECT without its WHERE clause, whose
\* fetchone() is a stored row whatever the id.
SelectByIdNoWhere(tbl, id) ==
    IF DOMAIN tbl = {} THEN {} ELSE {tbl[CHOOSE i \in DOMAIN tbl : TRUE]}

\* SELECT ... FROM people WHERE id = ?, fetchone(): the row or None.
SelectById(tbl, id) == IF id \in DOMAIN tbl THEN {tbl[id]} ELSE {}

\* DELETE FROM people WHERE id = ?
DeleteById(tbl, id) == [i \in DOMAIN tbl \ {id} |-> tbl[i]]

\* A faulty variant of ApplyPatch: every column is assigned, a field the patch
\* leaves out becoming the empty text (the status is kept).
ApplyPatchAllColumns(row, patch, updated) ==
    [id              |-> row.id,
     name            |-> IF patch.name # {} THEN CHOOSE v \in patch.name : TRUE
                         ELSE <<>>,
     role            |-> IF patch.role # {} THEN CHOOSE v \in patch.role : TRUE
                         ELSE <<>>,
     department      |-> IF patch.department # {}
                         THEN CHOOSE v \in patch.department : TRUE
                         ELSE <<>>,
     staffing_status |-> IF patch.staffing_status # {}
                         THEN CHOOSE v \in patch.staffing_status : TRUE
                         ELSE row.staffing_status,
     created_at      |-> row.created_at,
     updated_at      |-> updated]

\* A faulty variant of ApplyPatch: updated_at is assigned only when it moves
\* the row's updated_at forward.
ApplyPatchNewestStamp(row, patch, updated) ==
    [id              |-> row.id,
     name            |-> IF patch.name # {} THEN CHOOSE v \in patch.name : TRUE
                         ELSE row.name,
     role            |-> IF patch.role # {} THEN CHOOSE v \in patch.role : TRUE
                         ELSE row.role,
     department      |-> IF patch.department # {}
                         THEN CHOOSE v \in patch.department : TRUE
                         ELSE row.department,
     staffing_status |-> IF patch.staffing_status # {}
                         THEN CHOOSE v \in patch.staffing_status : TRUE
                         ELSE row.staffing_status,
     created_at      |-> row.created_at,
     updated_at      |-> IF updated > row.updated_at THEN updated ELSE row.updated_at]

\* The SET list update_person builds: a column is assigned iff the patch's
\* field `is not None`; updated_at is always assigned.
ApplyPatch(row, patch, updated) ==
    [id              |-> row.id,
     name            |-> IF patch.name # {} THEN CHOOSE v \in patch.name : TRUE
                         ELSE row.name,
     role            |-> IF patch.role # {} THEN CHOOSE v \in patch.role : TRUE
                         ELSE row.role,
     department      |-> IF patch.department # {}
                         THEN CHOOSE v \in patch.department : TRUE
                         ELSE row.department,
     staffing_status |-> IF patch.staffing_status # {}
                         THEN CHOOSE v \in patch.staffing_status : TRUE
                         ELSE row.staffing_status,
     created_at      |-> row.created_at,
     updated_at      |-> updated]

\* A faulty variant of UpdateById: the UPDATE is never committed, so no other
\* connection sees it.
UpdateByIdUncommitted(tbl, id, patch, updated) == tbl

\* UPDATE people SET ... WHERE id = ?: no row matches a missing id.
UpdateById(tbl, id, patch, updated) ==
    [i \in DOMAIN tbl |-> IF i = id THEN ApplyPatch(tbl[i], patch, updated) ELSE tbl[i]]

\* `if not update_fields`
NoFields(patch) ==
    /\ patch.name = {}
    /\ patch.role = {}
    /\ patch.department = {}
    /\ patch.staffing_status = {}

\* ORDER BY created_at DESC over the rows with ids in S: every order of the
\* rows in which created_at never increases.  SQL leaves the order of rows
\* with equal keys to the engine (scan order, index used, sorter).
OrderByCreatedAtDesc(tbl, S) ==
    LET n == Cardinality(S)
    IN  { [i \in 1..n |-> tbl[f[i]]] :
            f \in { g \in [1..n -> S] :
                      /\ \A i, j \in 1..n : i # j => g[i] # g[j]
                      /\ \A i, j \in 1..n :
                            i < j => tbl[g[i]].created_at >= tbl[g[j]].created_at } }

\* A faulty variant of OnBeach: WHERE staffing_status = 'bench'.
OnBeachBenchOnly(tbl) == {i \in DOMAIN tbl : tbl[i].staffing_status = "bench"}

\* WHERE staffing_status IN ('bench', 'available')
OnBeach(tbl) == {i \in DOMAIN tbl : tbl[i].staffing_status \in {"bench", "available"}}

----------------------------------------------------------------------------
(* What a step returns, and what a suspended handler holds. *)

\* began is history: the table as the request in flight found it, kept in
\* the scenarios that ask for it.
Began(In, tbl) == IF In.history THEN {tbl} ELSE {}

NoLocal ==
    [person_id |-> 0, patch |-> NoPatch, updated_at |-> 0, person |-> {}, began |-> {}]

NoResp ==
    [op |-> "none", id |-> 0, status |-> 0, person |-> {}, people |-> <<>>,
     count |-> 0, last_updated |-> 0, removed |-> {}, body |-> {},
     keys |-> {}, success |-> {}, no_fields |-> {}]

\* The keys of the JSON object a handler's answer carries: those of the
\* response model it returns, or, when it raises HTTPException (or the request
\* model rejects the body), the one key of FastAPI's default answer,
\* {"detail": ...}: main.py installs no exception handler.
BodyKeys(status, model) == IF status \in {200, 201} THEN model ELSE {"detail"}

\* The value of the key "success", where the body has one: the handlers
\* pass success=True.
BodySuccess(status) == IF status \in {200, 201} THEN {TRUE} ELSE {}

\* PersonResponse(success, message, person) with its HTTP status, or the
\* HTTPException(status_code, detail) raised instead (person None).  body is
\* history: the request body, kept where the request model rejected it.
PersonReply(op, id, status, person) ==
    [op |-> op, id |-> id, status |-> status, person |-> person, people |-> <<>>,
     count |-> 0, last_updated |-> 0, removed |-> {}, body |-> {},
     keys |-> BodyKeys(status, {"success", "message", "person"}),
     success |-> BodySuccess(status), no_fields |-> {}]

\* PeopleListResponse / BeachResponse: the list, total_count = len(people).
ListReply(op, status, rows, at) ==
    [op |-> op, id |-> 0, status |-> status, person |-> {},
     people |-> [i \in 1..Len(rows) |-> Person(rows[i])],
     count |-> Len(rows), last_updated |-> at, removed |-> {}, body |-> {},
     keys |-> BodyKeys(status,
                IF op = "get_people_on_beach"
                THEN {"success", "message", "people_on_beach", "total_count",
                      "last_updated"}
                ELSE {"success", "message", "people", "total_count"}),
     success |-> BodySuccess(status), no_fields |-> {}]

\* What a service function returns: Optional[Person], or a bool as 0/1.
Returned(op, id, person, count) ==
    [op |-> op, id |-> id, status |-> 0, person |-> person, people |-> <<>>,
     count |-> count, last_updated |-> 0, removed |-> {}, body |-> {},
     keys |-> {}, success |-> {}, no_fields |-> {}]

----------------------------------------------------------------------------
(* routers/people.py *)

\* GET /people
HttpGetAllPeople(c, In) ==
    /\ pc[c] = "idle"
    /\ \E rows \in OrderByCreatedAtDesc(people, DOMAIN people) :
          resp' = ListReply("get_all_people", 200, rows, 0)
    /\ UNCHANGED <<people, seq, now, pc, local, fresh>>
    /\ UNCHANGED <<fs, doc, schema>>

\* POST /people with a body PersonCreate rejects: the handler is not entered,
\* and FastAPI answers the RequestValidationError with its default, 422
\* (main.py installs no exception handler).  body records the body sent.
HttpCreatePersonInvalid(c, In) ==
    /\ pc[c] = "idle"
    /\ \E raw \in In.invalidCreates :
          resp' = [PersonReply("create_person", 0, 422, {}) EXCEPT !.body = {raw}]
    /\ UNCHANGED <<people, seq, now, pc, local, fresh>>
    /\ UNCHANGED <<fs, doc, schema>>

\* POST /people: current_time, INSERT, commit, person_id = cursor.lastrowid.
HttpCreatePerson(c, In) ==
    /\ pc[c] = "idle"
    /\ seq < In.maxId
    /\ \E raw \in In.validCreates :
          /\ people' = InsertRow(people, seq, PersonCreate(raw), now, now)
          /\ fresh' = {[id |-> seq + 1, input |-> raw]}
    /\ seq' = seq + 1
    /\ pc' = [pc EXCEPT ![c] = "create_reread"]
    /\ local' = [local EXCEPT ![c] = [NoLocal EXCEPT !.person_id = seq + 1,
                                                     !.began = Began(In, people)]]
    /\ resp' = NoResp
    /\ UNCHANGED now
    /\ UNCHANGED <<fs, doc, schema>>

\* POST /people, "Retrieve the created person": `if not row` raises the 500
\* that `except Exception` turns into the 500 of create_person.
HttpCreatePersonReread(c, In) ==
    /\ pc[c] = "create_reread"
    /\ LET id == local[c].person_id
           row == SelectById(people, id)
       IN  resp' = IF row = {}
                   THEN PersonReply("create_person", id, 500, {})
                   ELSE PersonReply("create_person", id, 201, {Person(r) : r \in row})
    /\ pc' = [pc EXCEPT ![c] = "idle"]
    /\ local' = [local EXCEPT ![c] = NoLocal]
    /\ UNCHANGED <<people, seq, now, fresh>>
    /\ UNCHANGED <<fs, doc, schema>>

\* GET /people/{person_id}
HttpGetPersonById(c, In) ==
    /\ pc[c] = "idle"
    /\ \E id \in In.ids :
          LET row == SelectById(people, id)
          IN  resp' = IF row = {}
                      THEN PersonReply("get_person_by_id", id, 404, {})
                      ELSE PersonReply("get_person_by_id", id, 200,
                                       {Person(r) : r \in row})
    /\ UNCHANGED <<people, seq, now, pc, local, fresh>>
    /\ UNCHANGED <<fs, doc, schema>>

\* PUT /people/{person_id} with a body PersonUpdate rejects: 422, whether or
\* not the id has a row.
HttpUpdatePersonInvalid(c, In) ==
    /\ pc[c] = "idle"
    /\ \E raw \in In.invalidUpdates :
          resp' = [PersonReply("update_person", 0, 422, {}) EXCEPT !.body = {raw}]
    /\ UNCHANGED <<people, seq, now, pc, local, fresh>>
    /\ UNCHANGED <<fs, doc, schema>>

\* A faulty variant of HttpUpdatePerson: `if not update_fields` comes before
\* the check that the person exists.
HttpUpdatePersonFieldsFirst(c, In) ==
    /\ pc[c] = "idle"
    /\ \E id \in In.ids, raw \in In.validUpdates :
          LET patch == PersonUpdate(raw)
          IN  IF NoFields(patch)
              THEN /\ resp' = [PersonReply("update_person", id, 400, {})
                                  EXCEPT !.no_fields = {NoFields(patch)}]
                   /\ UNCHANGED <<pc, local>>
              ELSE IF SelectById(people, id) = {}
              THEN /\ resp' = [PersonReply("update_person", id, 404, {})
                                  EXCEPT !.no_fields = {NoFields(patch)}]
                   /\ UNCHANGED <<pc, local>>
              ELSE /\ resp' = NoResp
                   /\ pc' = [pc EXCEPT ![c] = "update_write"]
                   /\ local' = [local EXCEPT ![c] =
                                   [NoLocal EXCEPT !.person_id = id,
                                                   !.patch = patch,
                                                   !.updated_at = now,
                                                   !.began = Began(In, people)]]
    /\ UNCHANGED <<people, seq, now, fresh>>
    /\ UNCHANGED <<fs, doc, schema>>

\* PUT /people/{person_id}: "First check if person exists" (whatever the
\* body), build the SET list, `if not update_fields`, read the clock for
\* updated_at.  no_fields is history: whether the body named no field, kept
\* where the request is refused.
HttpUpdatePerson(c, In) ==
    /\ pc[c] = "idle"
    /\ \E id \in In.ids, raw \in In.validUpdates :
          LET patch == PersonUpdate(raw)
          IN  IF SelectById(people, id) = {}
              THEN /\ resp' = [PersonReply("update_person", id, 404, {})
                                  EXCEPT !.no_fields = {NoFields(patch)}]
                   /\ UNCHANGED <<pc, local>>
              ELSE IF NoFields(patch)
              THEN /\ resp' = [PersonReply("update_person", id, 400, {})
                                  EXCEPT !.no_fields = {NoFields(patch)}]
                   /\ UNCHANGED <<pc, local>>
              ELSE /\ resp' = NoResp
                   /\ pc' = [pc EXCEPT ![c] = "update_write"]
                   /\ local' = [local EXCEPT ![c] =
                                   [NoLocal EXCEPT !.person_id = id,
                                                   !.patch = patch,
                                                   !.updated_at = now,
                                                   !.began = Began(In, people)]]
    /\ UNCHANGED <<people, seq, now, fresh>>
    /\ UNCHANGED <<fs, doc, schema>>

\* PUT /people/{person_id}: "Execute update", commit.
HttpUpdatePersonWrite(c, In) ==
    /\ pc[c] = "update_write"
    /\ LET id == local[c].person_id
       IN  /\ people' = UpdateById(people, id, local[c].patch, local[c].updated_at)
           /\ fresh' = IF id \in DOMAIN people THEN {} ELSE fresh
    /\ pc' = [pc EXCEPT ![c] = "update_reread"]
    /\ resp' = NoResp
    /\ UNCHANGED <<seq, now, local>>
    /\ UNCHANGED <<fs, doc, schema>>

\* PUT /people/{person_id}: "Retrieve updated person"; row["id"] of a None row
\* raises TypeError, which `except Exception` turns into a 500.
HttpUpdatePersonReread(c, In) ==
    /\ pc[c] = "update_reread"
    /\ LET id == local[c].person_id
           row == SelectById(people, id)
       IN  resp' = IF row = {}
                   THEN PersonReply("update_person", id, 500, {})
                   ELSE PersonReply("update_person", id, 200, {Person(r) : r \in row})
    /\ pc' = [pc EXCEPT ![c] = "idle"]
    /\ local' = [local EXCEPT ![c] = NoLocal]
    /\ UNCHANGED <<people, seq, now, fresh>>
    /\ UNCHANGED <<fs, doc, schema>>

\* DELETE /people/{person_id}: "First retrieve the person to return in response".
HttpDeletePerson(c, In) ==
    /\ pc[c] = "idle"
    /\ \E id \in In.ids :
          LET row == SelectById(people, id)
          IN  IF row = {}
              THEN /\ resp' = PersonReply("delete_person", id, 404, {})
                   /\ UNCHANGED <<pc, local>>
              ELSE /\ resp' = NoResp
                   /\ pc' = [pc EXCEPT ![c] = "delete_write"]
                   /\ local' = [local EXCEPT ![c] =
                                   [NoLocal EXCEPT !.person_id = id,
                                                   !.person = {Person(r) : r \in row},
                                                   !.began = Began(In, people)]]
    /\ UNCHANGED <<people, seq, now, fresh>>
    /\ UNCHANGED <<fs, doc, schema>>

\* DELETE /people/{person_id}: "Delete the person", commit, return
\* deleted_person.  removed records the row the DELETE statement removed.
HttpDeletePersonWrite(c, In) ==
    /\ pc[c] = "delete_write"
    /\ LET id == local[c].person_id
       IN  /\ people' = DeleteById(people, id)
           /\ fresh' = IF id \in DOMAIN people THEN {} ELSE fresh
           /\ resp' = [PersonReply("delete_person", id, 200, local[c].person)
                          EXCEPT !.removed = SelectById(people, id)]
    /\ pc' = [pc EXCEPT ![c] = "idle"]
    /\ local' = [local EXCEPT ![c] = NoLocal]
    /\ UNCHANGED <<seq, now>>
    /\ UNCHANGED <<fs, doc, schema>>

----------------------------------------------------------------------------
(* services.py, routers/beach.py *)

\* BeachService.get_people_on_beach(): SELECT * FROM people WHERE
\* staffing_status IN ('bench', 'available') ORDER BY created_at DESC
BeachRows(tbl) == OrderByCreatedAtDesc(tbl, OnBeach(tbl))

\* GET /beach
HttpGetPeopleOnBeach(c, In) ==
    /\ pc[c] = "idle"
    /\ \E rows \in BeachRows(people) :
          resp' = ListReply("get_people_on_beach", 200, rows, now)
    /\ UNCHANGED <<people, seq, now, pc, local, fresh>>
    /\ UNCHANGED <<fs, doc, schema>>

\* PeopleService.create_person: INSERT with (datetime.utcnow(),
\* datetime.utcnow()), two readings of the clock, then commit.
SvcCreatePerson(c, In) ==
    /\ pc[c] = "idle"
    /\ seq < In.maxId
    /\ \E raw \in In.validCreates, t \in {now, now + 1} \cap Times :
          /\ people' = InsertRow(people, seq, PersonCreate(raw), now, t)
          /\ fresh' = {[id |-> seq + 1, input |-> raw]}
          /\ now' = t
    /\ seq' = seq + 1
    /\ pc' = [pc EXCEPT ![c] = "svc_create_get"]
    /\ local' = [local EXCEPT ![c] = [NoLocal EXCEPT !.person_id = seq + 1]]
    /\ resp' = NoResp
    /\ UNCHANGED <<fs, doc, schema>>

\* PeopleService.create_person: return await get_person_by_id(person_id)
SvcCreatePersonGet(c, In) ==
    /\ pc[c] = "svc_create_get"
    /\ LET id == local[c].person_id
       IN  resp' = Returned("svc_create_person", id,
                            {Person(r) : r \in SelectById(people, id)}, 0)
    /\ pc' = [pc EXCEPT ![c] = "idle"]
    /\ local' = [local EXCEPT ![c] = NoLocal]
    /\ UNCHANGED <<people, seq, now, fresh>>
    /\ UNCHANGED <<fs, doc, schema>>

\* PeopleService.get_person_by_id
SvcGetPersonById(c, In) ==
    /\ pc[c] = "idle"
    /\ \E id \in In.ids :
          resp' = Returned("svc_get_person_by_id", id,
                           {Person(r) : r \in SelectById(people, id)}, 0)
    /\ UNCHANGED <<people, seq, now, pc, local, fresh>>
    /\ UNCHANGED <<fs, doc, schema>>

\* PeopleService.get_all_people
SvcGetAllPeople(c, In) ==
    /\ pc[c] = "idle"
    /\ \E rows \in OrderByCreatedAtDesc(people, DOMAIN people) :
          resp' = ListReply("svc_get_all_people", 0, rows, 0)
    /\ UNCHANGED <<people, seq, now, pc, local, fresh>>
    /\ UNCHANGED <<fs, doc, schema>>

\* PeopleService.update_person: "First check if person exists", build the SET
\* list (no check that it names a field), read the clock.
SvcUpdatePerson(c, In) ==
    /\ pc[c] = "idle"
    /\ \E id \in In.ids :
          IF SelectById(people, id) = {}
          THEN /\ resp' = Returned("svc_update_person", id, {}, 0)
               /\ UNCHANGED <<pc, local>>
          ELSE \E raw \in In.validUpdates :
                 /\ resp' = NoResp
                 /\ pc' = [pc EXCEPT ![c] = "svc_update_write"]
                 /\ local' = [local EXCEPT ![c] =
                                 [NoLocal EXCEPT !.person_id = id,
                                                 !.patch = PersonUpdate(raw),
                                                 !.updated_at = now]]
    /\ UNCHANGED <<people, seq, now, fresh>>
    /\ UNCHANGED <<fs, doc, schema>>

\* PeopleService.update_person: UPDATE, commit.
SvcUpdatePersonWrite(c, In) ==
    /\ pc[c] = "svc_update_write"
    /\ LET id == local[c].person_id
       IN  /\ people' = UpdateById(people, id, local[c].patch, local[c].updated_at)
           /\ fresh' = IF id \in DOMAIN people THEN {} ELSE fresh
    /\ pc' = [pc EXCEPT ![c] = "svc_update_get"]
    /\ resp' = NoResp
    /\ UNCHANGED <<seq, now, local>>
    /\ UNCHANGED <<fs, doc, schema>>

\* PeopleService.update_person: "Return updated person".
SvcUpdatePersonGet(c, In) ==
    /\ pc[c] = "svc_update_get"
    /\ LET id == local[c].person_id
       IN  resp' = Returned("svc_update_person", id,
                            {Person(r) : r \in SelectById(people, id)}, 1)
    /\ pc' = [pc EXCEPT ![c] = "idle"]
    /\ local' = [local EXCEPT ![c] = NoLocal]
    /\ UNCHANGED <<people, seq, now, fresh>>
    /\ UNCHANGED <<fs, doc, schema>>

\* PeopleService.delete_person: DELETE, commit, return cursor.rowcount > 0.
SvcDeletePerson(c, In) ==
    /\ pc[c] = "idle"
    /\ \E id \in In.ids :
          /\ people' = DeleteById(people, id)
          /\ fresh' = IF id \in DOMAIN people THEN {} ELSE fresh
          /\ resp' = [Returned("svc_delete_person", id, {},
                               Cardinality(DOMAIN people) - Cardinality(DOMAIN people'))
                         EXCEPT !.removed = SelectById(people, id)]
    /\ UNCHANGED <<seq, now, pc, local>>
    /\ UNCHANGED <<fs, doc, schema>>

----------------------------------------------------------------------------
(* seed_data.py *)

\* SAMPLE_PEOPLE, its first entries (Alice Johnson, Bob Chen; names and roles
\* shortened).
SAMPLE_PEOPLE ==
    << [name |-> <<"A">>, role |-> <<"E">>, department |-> <<"D">>,
        staffing_status |-> "staffed"],
       [name |-> <<"B">>, role |-> <<"E">>, department |-> <<"D">>,
        staffing_status |-> "bench"] >>

\* The INSERT loop of seed_people_data over the entries k..Len(SAMPLE_PEOPLE),
\* every row with the one current_time.
RECURSIVE SeedFrom(_, _, _, _)
SeedFrom(tbl, last, k, current_time) ==
    IF k > Len(SAMPLE_PEOPLE) THEN tbl
    ELSE SeedFrom(InsertRow(tbl, last, SAMPLE_PEOPLE[k], current_time, current_time),
                  last + 1, k + 1, current_time)

\* clear_existing_data: DELETE FROM people, commit.  sqlite_sequence keeps
\* the largest rowid.
ClearExistingData ==
    /\ people' = <<>>
    /\ fresh' = {}
    /\ resp' = NoResp
    /\ UNCHANGED <<seq, now, pc, local>>
    /\ UNCHANGED <<fs, doc, schema>>

\* seed_people_data: one transaction.
SeedPeopleData ==
    /\ seq + Len(SAMPLE_PEOPLE) <= MaxId
    /\ people' = SeedFrom(people, seq, 1, now)
    /\ seq' = seq + Len(SAMPLE_PEOPLE)
    /\ fresh' = {}
    /\ resp' = NoResp
    /\ UNCHANGED <<now, pc, local>>
    /\ UNCHANGED <<fs, doc, schema>>

----------------------------------------------------------------------------
(* routers/documents.py.  A file name is text, as above.  The handlers have
   no await: a request is one step. *)

\* `sub in s`
Contains(s, sub) ==
    \E i \in 1..(Len(s) - Len(sub) + 1) : SubSeq(s, i, i + Len(sub) - 1) = sub

\* s.rfind(ch) + 1: the last index of ch in s, or 0.
RFind(s, ch) ==
    IF \E i \in 1..Len(s) : s[i] = ch
    THEN CHOOSE i \in 1..Len(s) : s[i] = ch /\ \A j \in (i + 1)..Len(s) : s[j] # ch
    ELSE 0

\* Path(filename).suffix of a name without a separator: from its last dot
\* on, unless that dot is the first or the last character.
Suffix(name) ==
    LET i == RFind(name, ".")
    IN  IF 1 < i /\ i < Len(name) THEN SubSeq(name, i, Len(name)) ELSE <<>>

UpperCase == <<"A", "B", "C", "D", "E", "F", "G", "H", "I", "J", "K", "L", "M",
               "N", "O", "P", "Q", "R", "S", "T", "U", "V", "W", "X", "Y", "Z">>
LowerCase == <<"a", "b", "c", "d", "e", "f", "g", "h", "i", "j", "k", "l", "m",
               "n", "o", "p", "q", "r", "s", "t", "u", "v", "w", "x", "y", "z">>

\* str.lower()
Lower(s) ==
    [i \in 1..Len(s) |->
        IF \E k \in 1..Len(UpperCase) : UpperCase[k] = s[i]
        THEN LowerCase[CHOOSE k \in 1..Len(UpperCase) : UpperCase[k] = s[i]]
        ELSE s[i]]

ALLOWED_EXTENSIONS ==
    {<<".", "m", "d">>, <<".", "t", "x", "t">>, <<".", "p", "d", "f">>,
     <<".", "d", "o", "c">>, <<".", "d", "o", "c", "x">>}

EmployeeHandbook ==
    <<"e", "m", "p", "l", "o", "y", "e", "e", "-", "h",
      "a", "n", "d", "b", "o", "o", "k", ".", "m", "d">>
CodeOfConduct ==
    <<"c", "o", "d", "e", "-", "o", "f", "-", "c",
      "o", "n", "d", "u", "c", "t", ".", "m", "d">>
SecurityPolicy ==
    <<"s", "e", "c", "u", "r", "i", "t", "y", "-",
      "p", "o", "l", "i", "c", "y", ".", "m", "d">>

\* AVAILABLE_DOCUMENTS: file name -> description.
AVAILABLE_DOCUMENTS ==
    [n \in {EmployeeHandbook, CodeOfConduct, SecurityPolicy} |->
        CASE n = EmployeeHandbook ->
               "Employee Handbook - Company policies and procedures"
          [] n = CodeOfConduct ->
               "Code of Conduct - Ethical standards and behavioral expectations"
          [] n = SecurityPolicy ->
               "Security Policy - Information security guidelines and requirements"]

\* `".." in filename or "/" in filename or "\\" in filename`
PathTraversal(filename) ==
    \/ Contains(filename, <<".", ".">>)
    \/ Contains(filename, <<"/">>)
    \/ Contains(filename, <<"\\">>)

\* What POLICIES_DIR / name may be: nothing, a regular file, a directory, or a
\* symbolic link to a regular file outside POLICIES_DIR.
FileKinds == {"missing", "file", "dir", "link_out"}

\* A faulty variant of ResolvesInside: the resolved path is not compared with
\* the directory.
ResolvesAnywhere(dir, name) == TRUE

\* file_path.exists(), .is_file() (both follow links), and whether
\* file_path.resolve().relative_to(POLICIES_DIR.resolve()) returns.
PathExists(dir, name) == name \in DOMAIN dir /\ dir[name] # "missing"
PathIsFile(dir, name) == name \in DOMAIN dir /\ dir[name] \in {"file", "link_out"}
ResolvesInside(dir, name) == name \in DOMAIN dir => dir[name] # "link_out"

\* A name on disk that AVAILABLE_DOCUMENTS does not list.
Notes == <<"n", "o", "t", "e", "s", ".", "t", "x", "t">>

\* The placeholder file that keeps the directory under version control.
GitKeep == <<".", "g", "i", "t", "k", "e", "e", "p">>

\* The names the policies directory may hold.
DiskNames == DOMAIN AVAILABLE_DOCUMENTS \cup {Notes, GitKeep}

\* POLICIES_DIR itself, as the path with no name under it: a directory, or
\* missing (and then nothing is under it).
PoliciesDir == <<>>
PoliciesDirExists(dir) == dir[PoliciesDir] = "dir"

\* The file names the clients ask for: the documents listed, and names that
\* fail one check or several.
DocNames ==
    DOMAIN AVAILABLE_DOCUMENTS \cup
    {<<"n", "o", "t", "e", "s", ".", "t", "x", "t">>,
     <<"X", ".", "M", "D">>,
     <<"x", ".", "e", "x", "e">>,
     <<"R", "E", "A", "D", "M", "E">>,
     <<".", "m", "d">>,
     <<"a", ".", "m", "d", ".">>,
     <<".", ".">>,
     <<"a", ".", ".", "m", "d">>,
     <<".", ".", "/", "x", ".", "m", "d">>,
     <<"a", "\\", "b", ".", "m", "d">>,
     <<"x", "/", "y", ".", "e", "x", "e">>}

\* What a handler of the documents router answers: the status, the
\* filesystem calls it made in order, and the file a FileResponse sends.
NoDoc ==
    [op |-> "none", filename |-> <<>>, status |-> 0, ops |-> <<>>, served |-> {},
     documents |-> <<>>]

DocReply(op, filename, status, ops, served) ==
    [op |-> op, filename |-> filename, status |-> status, ops |-> ops,
     served |-> served, documents |-> <<>>]

\* A faulty variant of GetDocument: the allow-list is consulted before the
\* extension.
GetDocumentListFirst(filename, dir) ==
    IF PathTraversal(filename)
    THEN DocReply("get_document", filename, 400, <<>>, {})
    ELSE IF filename \notin DOMAIN AVAILABLE_DOCUMENTS
    THEN DocReply("get_document", filename, 404, <<>>, {})
    ELSE IF Lower(Suffix(filename)) \notin ALLOWED_EXTENSIONS
    THEN DocReply("get_document", filename, 403, <<>>, {})
    ELSE IF ~PathExists(dir, filename)
    THEN DocReply("get_document", filename, 404, <<"exists">>, {})
    ELSE IF ~PathIsFile(dir, filename)
    THEN DocReply("get_document", filename, 403, <<"exists", "is_file">>, {})
    ELSE IF ~ResolvesInside(dir, filename)
    THEN DocReply("get_document", filename, 403,
                  <<"exists", "is_file", "resolve">>, {})
    ELSE DocReply("get_document", filename, 200,
                  <<"exists", "is_file", "resolve", "open">>,
                  {[name |-> filename, kind |-> dir[filename]]})

\* get_document(filename) in the directory dir
GetDocument(filename, dir) ==
    IF PathTraversal(filename)
    THEN DocReply("get_document", filename, 400, <<>>, {})
    ELSE IF Lower(Suffix(filename)) \notin ALLOWED_EXTENSIONS
    THEN DocReply("get_document", filename, 403, <<>>, {})
    ELSE IF filename \notin DOMAIN AVAILABLE_DOCUMENTS
    THEN DocReply("get_document", filename, 404, <<>>, {})
    ELSE IF ~PathExists(dir, filename)
    THEN DocReply("get_document", filename, 404, <<"exists">>, {})
    ELSE IF ~PathIsFile(dir, filename)
    THEN DocReply("get_document", filename, 403, <<"exists", "is_file">>, {})
    ELSE IF ~ResolvesInside(dir, filename)
    THEN DocReply("get_document", filename, 403,
                  <<"exists", "is_file", "resolve">>, {})
    ELSE DocReply("get_document", filename, 200,
                  <<"exists", "is_file", "resolve", "open">>,
                  {[name |-> filename, kind |-> dir[filename]]})

\* A faulty variant of GetDocumentInfo: the allow-list is consulted before
\* the test for path traversal.
GetDocumentInfoListFirst(filename, dir) ==
    IF filename \notin DOMAIN AVAILABLE_DOCUMENTS
    THEN DocReply("get_document_info", filename, 404, <<>>, {})
    ELSE IF PathTraversal(filename)
    THEN DocReply("get_document_info", filename, 400, <<>>, {})
    ELSE IF ~PathExists(dir, filename)
    THEN DocReply("get_document_info", filename, 404, <<"exists">>, {})
    ELSE DocReply("get_document_info", filename, 200, <<"exists", "stat">>, {})

\* get_document_info(filename) in the directory dir: no check of the
\* extension, of is_file() or of the resolved path.
GetDocumentInfo(filename, dir) ==
    IF PathTraversal(filename)
    THEN DocReply("get_document_info", filename, 400, <<>>, {})
    ELSE IF filename \notin DOMAIN AVAILABLE_DOCUMENTS
    THEN DocReply("get_document_info", filename, 404, <<>>, {})
    ELSE IF ~PathExists(dir, filename)
    THEN DocReply("get_document_info", filename, 404, <<"exists">>, {})
    ELSE DocReply("get_document_info", filename, 200, <<"exists", "stat">>, {})

\* The names POLICIES_DIR.iterdir() yields that pass
\* `file_path.is_file() and file_path.name != ".gitkeep"`.
ActualFiles(dir) ==
    {n \in DOMAIN dir \ {PoliciesDir} :
        dir[n] # "missing" /\ PathIsFile(dir, n) /\ n # GitKeep}

\* list_available_documents() in the directory dir: the listed names among
\* the actual files, each with its description.
ListAvailableDocuments(dir) ==
    IF ~PoliciesDirExists(dir)
    THEN DocReply("list_available_documents", <<>>, 500, <<"exists">>, {})
    ELSE [DocReply("list_available_documents", <<>>, 200,
                   <<"exists", "iterdir">>, {})
             EXCEPT !.documents =
                [filename \in {n \in DOMAIN AVAILABLE_DOCUMENTS : n \in ActualFiles(dir)}
                    |-> AVAILABLE_DOCUMENTS[filename]]]

\* GET /docs
HttpListAvailableDocuments ==
    /\ doc' = ListAvailableDocuments(fs)
    /\ UNCHANGED <<people, seq, now, pc, local, resp, fresh, fs, schema>>

\* GET /docs/{filename}
HttpGetDocument ==
    /\ \E filename \in DocNames : doc' = GetDocument(filename, fs)
    /\ UNCHANGED <<people, seq, now, pc, local, resp, fresh, fs, schema>>

\* GET /docs/{filename}/info
HttpGetDocumentInfo ==
    /\ \E filename \in DocNames : doc' = GetDocumentInfo(filename, fs)
    /\ UNCHANGED <<people, seq, now, pc, local, resp, fresh, fs, schema>>

\* Someone with access to the host changes what a name of the policies
\* directory is.
FsChange ==
    /\ PoliciesDirExists(fs)
    /\ \E n \in DiskNames, k \in FileKinds :
          /\ fs[n] # k
          /\ fs' = [fs EXCEPT ![n] = k]
    /\ doc' = NoDoc
    /\ UNCHANGED <<people, seq, now, pc, local, resp, fresh, schema>>

\* The policies directory is removed with all it holds, or made anew, empty.
FsRemoveDir ==
    /\ PoliciesDirExists(fs)
    /\ fs' = [n \in DOMAIN fs |-> "missing"]
    /\ doc' = NoDoc
    /\ UNCHANGED <<people, seq, now, pc, local, resp, fresh, schema>>

FsMakeDir ==
    /\ ~PoliciesDirExists(fs)
    /\ fs' = [fs EXCEPT ![PoliciesDir] = "dir"]
    /\ doc' = NoDoc
    /\ UNCHANGED <<people, seq, now, pc, local, resp, fresh, schema>>

----------------------------------------------------------------------------

(* database.py: init_database, which main.py's lifespan awaits before the
   first request is served. *)

PeopleTable == "people"
StatusIndex == "idx_people_staffing_status"
DepartmentIndex == "idx_people_department"

\* What init_database creates.
SchemaObjects == {PeopleTable, StatusIndex, DepartmentIndex}

\* A database file: the objects of its schema, the rows of people and the
\* sqlite_sequence of people (no rows and no sequence without the table).
Storage(objects, tbl, last) == [schema |-> objects, people |-> tbl, seq |-> last]

\* A faulty variant of CreateTableIfNotExists: the table is dropped, with its
\* indexes, and made anew.
CreateTableAfresh(db) == Storage({PeopleTable}, <<>>, 0)

\* CREATE TABLE IF NOT EXISTS people (...): nothing if there is a table of
\* that name.
CreateTableIfNotExists(db) ==
    IF PeopleTable \in db.schema THEN db
    ELSE Storage(db.schema \cup {PeopleTable}, <<>>, 0)

\* CREATE INDEX IF NOT EXISTS name ON people(...): nothing if there is an
\* index of that name.
CreateIndexIfNotExists(db, name) ==
    IF name \in db.schema THEN db
    ELSE Storage(db.schema \cup {name}, db.people, db.seq)

\* init_database: "Create People table".  began is history: the storage the
\* run found.
InitDatabase(c) ==
    /\ pc[c] = "idle"
    /\ LET db == CreateTableIfNotExists(Storage(schema, people, seq))
       IN  /\ schema' = db.schema
           /\ people' = db.people
           /\ seq' = db.seq
    /\ pc' = [pc EXCEPT ![c] = "init_status_index"]
    /\ local' = [local EXCEPT ![c] =
                    [NoLocal EXCEPT !.began = {Storage(schema, people, seq)}]]
    /\ resp' = NoResp
    /\ UNCHANGED <<now, fresh, fs, doc>>

\* init_database: "Create indexes for performance", the first.
InitDatabaseStatusIndex(c) ==
    /\ pc[c] = "init_status_index"
    /\ LET db == CreateIndexIfNotExists(Storage(schema, people, seq), StatusIndex)
       IN  /\ schema' = db.schema
           /\ people' = db.people
           /\ seq' = db.seq
    /\ pc' = [pc EXCEPT ![c] = "init_department_index"]
    /\ UNCHANGED <<now, local, resp, fresh, fs, doc>>

\* init_database: the second index.
InitDatabaseDepartmentIndex(c) ==
    /\ pc[c] = "init_department_index"
    /\ LET db == CreateIndexIfNotExists(Storage(schema, people, seq), DepartmentIndex)
       IN  /\ schema' = db.schema
           /\ people' = db.people
           /\ seq' = db.seq
    /\ pc' = [pc EXCEPT ![c] = "init_commit"]
    /\ UNCHANGED <<now, local, resp, fresh, fs, doc>>

\* init_database: "Commit the changes", and the connection is closed.
InitDatabaseCommit(c) ==
    /\ pc[c] = "init_commit"
    /\ pc' = [pc EXCEPT ![c] = "idle"]
    /\ local' = [local EXCEPT ![c] = NoLocal]
    /\ resp' = Returned("init_database", 0, {}, 0)
    /\ UNCHANGED <<people, seq, now, fresh, fs, doc, schema>>

----------------------------------------------------------------------------

\* The clock moves on.
Tick ==
    /\ now < MaxTime
    /\ now' = now + 1
    /\ resp' = NoResp
    /\ UNCHANGED <<people, seq, pc, local, fresh>>
    /\ UNCHANGED <<fs, doc, schema>>

Init ==
    /\ people = <<>>
    /\ seq = 0
    /\ now = 1
    /\ pc = [c \in Clients |-> "idle"]
    /\ local = [c \in Clients |-> NoLocal]
    /\ resp = NoResp
    /\ fresh = {}
    /\ fs = [n \in DiskNames \cup {PoliciesDir} |->
                IF n = PoliciesDir THEN "dir" ELSE "file"]
    /\ doc = NoDoc
    /\ schema = SchemaObjects

HttpStep(c, In) ==
    \/ HttpGetAllPeople(c, In)
    \/ HttpCreatePersonInvalid(c, In)
    \/ HttpCreatePerson(c, In)
    \/ HttpCreatePersonReread(c, In)
    \/ HttpGetPersonById(c, In)
    \/ HttpUpdatePersonInvalid(c, In)
    \/ HttpUpdatePerson(c, In)
    \/ HttpUpdatePersonWrite(c, In)
    \/ HttpUpdatePersonReread(c, In)
    \/ HttpDeletePerson(c, In)
    \/ HttpDeletePersonWrite(c, In)
    \/ HttpGetPeopleOnBeach(c, In)

SvcStep(c, In) ==
    \/ SvcCreatePerson(c, In)
    \/ SvcCreatePersonGet(c, In)
    \/ SvcGetPersonById(c, In)
    \/ SvcGetAllPeople(c, In)
    \/ SvcUpdatePerson(c, In)
    \/ SvcUpdatePersonWrite(c, In)
    \/ SvcUpdatePersonGet(c, In)
    \/ SvcDeletePerson(c, In)

\* One client, its requests one after another.
Next ==
    \/ HttpStep("c1", Wide)
    \/ SvcStep("c1", Wide)
    \/ ClearExistingData
    \/ SeedPeopleData
    \/ Tick

Spec == Init /\ [][Next]_vars

\* Two clients, their handlers interleaved at the awaits.
NextConc ==
    \/ \E c \in Clients : HttpStep(c, Narrow)
    \/ Tick

SpecConc == Init /\ [][NextConc]_vars

----------------------------------------------------------------------------
(* routers/people.py, the `except Exception` of the mutating handlers: an
   awaited statement raises (the database is locked, the disk fails), the
   handler awaits db.rollback() and raises the 500.  A rollback undoes what
   the connection has not committed. *)

\* A client whose requests remember the table they started from.
Faulty == [Narrow EXCEPT !.history = TRUE]

\* POST /people: the INSERT or its commit raises.
HttpCreatePersonWriteFails(c, In) ==
    /\ pc[c] = "idle"
    /\ In.validCreates # {}
    /\ resp' = PersonReply("create_person", 0, 500, {})
    /\ UNCHANGED <<people, seq, now, pc, local, fresh>>
    /\ UNCHANGED <<fs, doc, schema>>

\* POST /people: the SELECT of the created person raises, after the commit.
HttpCreatePersonRereadFails(c, In) ==
    /\ pc[c] = "create_reread"
    /\ resp' = PersonReply("create_person", local[c].person_id, 500, {})
    /\ pc' = [pc EXCEPT ![c] = "idle"]
    /\ local' = [local EXCEPT ![c] = NoLocal]
    /\ UNCHANGED <<people, seq, now, fresh>>
    /\ UNCHANGED <<fs, doc, schema>>

\* PUT /people/{person_id}: the UPDATE or its commit raises.
HttpUpdatePersonWriteFails(c, In) ==
    /\ pc[c] = "update_write"
    /\ resp' = PersonReply("update_person", local[c].person_id, 500, {})
    /\ pc' = [pc EXCEPT ![c] = "idle"]
    /\ local' = [local EXCEPT ![c] = NoLocal]
    /\ UNCHANGED <<people, seq, now, fresh>>
    /\ UNCHANGED <<fs, doc, schema>>

\* PUT /people/{person_id}: the SELECT of the updated person raises, after
\* the commit.
HttpUpdatePersonRereadFails(c, In) ==
    /\ pc[c] = "update_reread"
    /\ resp' = PersonReply("update_person", local[c].person_id, 500, {})
    /\ pc' = [pc EXCEPT ![c] = "idle"]
    /\ local' = [local EXCEPT ![c] = NoLocal]
    /\ UNCHANGED <<people, seq, now, fresh>>
    /\ UNCHANGED <<fs, doc, schema>>

\* DELETE /people/{person_id}: the DELETE or its commit raises.
HttpDeletePersonWriteFails(c, In) ==
    /\ pc[c] = "delete_write"
    /\ resp' = PersonReply("delete_person", local[c].person_id, 500, {})
    /\ pc' = [pc EXCEPT ![c] = "idle"]
    /\ local' = [local EXCEPT ![c] = NoLocal]
    /\ UNCHANGED <<people, seq, now, fresh>>
    /\ UNCHANGED <<fs, doc, schema>>

FaultStep(c, In) ==
    \/ HttpCreatePersonWriteFails(c, In)
    \/ HttpCreatePersonRereadFails(c, In)
    \/ HttpUpdatePersonWriteFails(c, In)
    \/ HttpUpdatePersonRereadFails(c, In)
    \/ HttpDeletePersonWriteFails(c, In)

\* One client, any of whose awaited statements may raise.
NextFault ==
    \/ HttpStep("c1", Faulty)
    \/ FaultStep("c1", Faulty)
    \/ Tick

SpecFault == Init /\ [][NextFault]_vars

\* The rows a people table may hold under the id i.
StoredRows(i) ==
    {[id |-> i, name |-> n, role |-> <<"E">>, department |-> <<"D">>,
      staffing_status |-> st, created_at |-> 1, updated_at |-> u] :
        n \in {<<"A">>, <<"B">>}, st \in {"bench", "staffed"}, u \in Times}

\* The database files init_database may find: no people table (and then no
\* index, no row and no sequence), or the table, any of its indexes, any
\* rows, and a sequence no smaller than the largest id.
StorageStates ==
    {Storage({}, <<>>, 0)} \cup
    UNION {UNION {{Storage({PeopleTable} \cup indexes, tbl, last) :
                      last \in {n \in 0..MaxId : \A i \in S : i <= n},
                      indexes \in SUBSET {StatusIndex, DepartmentIndex}} :
                  tbl \in {t \in [S -> UNION {StoredRows(i) : i \in Ids}] :
                              \A i \in S : t[i].id = i}} :
           S \in SUBSET Ids}

\* The application starts on any database file.
InitStartup ==
    /\ \E db \in StorageStates :
          /\ schema = db.schema
          /\ people = db.people
          /\ seq = db.seq
    /\ now = 1
    /\ pc = [c \in Clients |-> "idle"]
    /\ local = [c \in Clients |-> NoLocal]
    /\ resp = NoResp
    /\ fresh = {}
    /\ fs = [n \in DiskNames \cup {PoliciesDir} |->
                IF n = PoliciesDir THEN "dir" ELSE "file"]
    /\ doc = NoDoc

\* init_database, run again and again.
NextStartup ==
    \/ InitDatabase("c1")
    \/ InitDatabaseStatusIndex("c1")
    \/ InitDatabaseDepartmentIndex("c1")
    \/ InitDatabaseCommit("c1")

SpecStartup == InitStartup /\ [][NextStartup]_vars

\* The documents router and the policies directory.
NextDocs ==
    \/ HttpListAvailableDocuments
    \/ HttpGetDocument
    \/ HttpGetDocumentInfo
    \/ FsChange
    \/ FsRemoveDir
    \/ FsMakeDir

SpecDocs == Init /\ [][NextDocs]_vars

----------------------------------------------------------------------------
(* Helpers of the properties. *)

Range(f) == {f[i] : i \in DOMAIN f}

PersonIds(ps) == {ps[i].id : i \in DOMAIN ps}

Beach == {"bench", "available"}

\* The Person p carries the fields of the body `input`, text trimmed.
Echoes(p, input) ==
    /\ p.name = Strip(input.name)
    /\ p.role = Strip(input.role)
    /\ p.department = Strip(input.department)
    /\ p.staffing_status = input.staffing_status

\* Client c commits the UPDATE of update_person in this step.
UpdateCommits(c) ==
    /\ pc[c] \in {"update_write", "svc_update_write"}
    /\ pc'[c] \in {"update_reread", "svc_update_get"}

\* Client c commits the INSERT of create_person in this step.
InsertCommits(c) ==
    /\ pc[c] = "idle"
    /\ pc'[c] \in {"create_reread", "svc_create_get"}

----------------------------------------------------------------------------
(* C1 *)

\* C1: while the Person a valid create inserted is untouched by any other
\* mutation, the create answers 201 with the generated id and the values sent
\* (text trimmed), and GET /people/{id} answers 200 with the same values.
C1_CreateThenGetRoundTrip ==
    \A f \in fresh :
        /\ (resp.op = "create_person" /\ resp.id = f.id) =>
              /\ resp.status = 201
              /\ \E p \in resp.person : p.id = f.id /\ Echoes(p, f.input)
        /\ (resp.op = "get_person_by_id" /\ resp.id = f.id) =>
              /\ resp.status = 200
              /\ \E p \in resp.person : p.id = f.id /\ Echoes(p, f.input)

\* A GET by id right after a create whose name was sent with blanks around it.
C1_Witness ==
    \E f \in fresh :
        /\ f.input.name = <<" ", "B", " ">>
        /\ resp.op = "get_person_by_id"
        /\ resp.id = f.id
        /\ resp.status = 200
        /\ \E p \in resp.person : p.name = <<"B">>

----------------------------------------------------------------------------
(* C2 *)

\* C2: a row a create has just inserted (no mutation since) has
\* created_at = updated_at, for create_person of the router and of
\* PeopleService alike.
C2_CreatedEqualsUpdatedAtCreation ==
    \A f \in fresh :
        f.id \in DOMAIN people =>
            people[f.id].created_at = people[f.id].updated_at

----------------------------------------------------------------------------
(* C3 *)

\* C3: the UPDATE an update_person commits changes, in the row of its id, only
\* the fields the patch gives a non-null value, and updated_at; the id,
\* created_at and the fields not given keep their values, and so does every
\* other row.
C3_UpdateFrame ==
    [][\A c \in Clients :
          UpdateCommits(c) =>
             LET id == local[c].person_id
                 patch == local[c].patch
             IN  /\ DOMAIN people' = DOMAIN people
                 /\ \A i \in DOMAIN people : i # id => people'[i] = people[i]
                 /\ id \in DOMAIN people =>
                       /\ people'[id].id = id
                       /\ people'[id].created_at = people[id].created_at
                       /\ people'[id].name \in
                             (IF patch.name = {} THEN {people[id].name} ELSE patch.name)
                       /\ people'[id].role \in
                             (IF patch.role = {} THEN {people[id].role} ELSE patch.role)
                       /\ people'[id].department \in
                             (IF patch.department = {} THEN {people[id].department}
                              ELSE patch.department)
                       /\ people'[id].staffing_status \in
                             (IF patch.staffing_status = {}
                              THEN {people[id].staffing_status}
                              ELSE patch.staffing_status)]_vars

\* An update that gave a name and no status has committed, beside another row.
C3_Witness ==
    \E c \in Clients :
        /\ pc[c] \in {"update_reread", "svc_update_get"}
        /\ local[c].patch.name = {<<"B">>}
        /\ local[c].patch.staffing_status = {}
        /\ local[c].person_id \in DOMAIN people
        /\ people[local[c].person_id].name = <<"B">>
        /\ people[local[c].person_id].staffing_status = "staffed"
        /\ Cardinality(DOMAIN people) = 2

----------------------------------------------------------------------------
(* C4 *)

\* C4: no step lowers the updated_at of a stored row, and every stored row has
\* updated_at >= created_at.
C4_UpdatedAtNeverDecreases ==
    [][/\ \A i \in DOMAIN people \cap DOMAIN people' :
             people'[i].updated_at >= people[i].updated_at
       /\ \A i \in DOMAIN people' :
             people'[i].updated_at >= people'[i].created_at]_vars

----------------------------------------------------------------------------
(* C5 *)

\* C5: an id that was assigned and whose row is gone never has a row again;
\* GET /people/{id} of it answers 404, and no list names it.
C5_DeletedStaysGone ==
    [][/\ \A i \in 1..seq : i \notin DOMAIN people => i \notin DOMAIN people'
       /\ (resp'.op = "get_person_by_id" /\ resp'.id \notin DOMAIN people') =>
             resp'.status = 404
       /\ resp'.op \in {"get_all_people", "get_people_on_beach"} =>
             PersonIds(resp'.people) \subseteq DOMAIN people']_vars

\* A DELETE has just answered 200 and the row of its id is gone.
C5_Witness ==
    /\ resp.op = "delete_person"
    /\ resp.status = 200
    /\ resp.removed # {}
    /\ resp.id \notin DOMAIN people
    /\ resp.id <= seq

----------------------------------------------------------------------------
(* C6 *)

\* C6: getById, update and delete of an id that has no row answer 404 (the
\* service functions: None, None, False) and leave the table as it was.
C6_MissingIdNotFound ==
    [][/\ (/\ pc' = pc
           /\ resp'.op \in {"get_person_by_id", "update_person", "delete_person"}
           /\ resp'.id \in Ids
           /\ resp'.id \notin DOMAIN people) =>
             /\ resp'.status = 404
             /\ people' = people
             /\ seq' = seq
       /\ (/\ pc' = pc
           /\ resp'.op \in {"svc_get_person_by_id", "svc_update_person",
                            "svc_delete_person"}
           /\ resp'.id \notin DOMAIN people) =>
             /\ resp'.person = {}
             /\ resp'.count = 0
             /\ people' = people
             /\ seq' = seq
       /\ resp'.status = 404 => people' = people /\ seq' = seq]_vars

\* A PUT of a missing id has answered 404 while another Person is stored.
C6_Witness ==
    /\ resp.op = "update_person"
    /\ resp.status = 404
    /\ resp.id \notin DOMAIN people
    /\ DOMAIN people # {}

----------------------------------------------------------------------------
(* C7 *)

\* C7: the Person a successful DELETE returns is, field for field, the row
\* its DELETE statement removed.
C7_DeleteReturnsRemovedRow ==
    (resp.op = "delete_person" /\ resp.status = 200 /\ resp.removed # {}) =>
        resp.person = {Person(r) : r \in resp.removed}

----------------------------------------------------------------------------
(* C8 *)

\* C8: whatever the table holds, a result of the beach query holds exactly
\* the Persons of a result of the list query whose status is bench or
\* available, each once and with the same fields.
C8_BeachIsFilteredList ==
    \A b \in BeachRows(people), l \in OrderByCreatedAtDesc(people, DOMAIN people) :
        /\ {Person(r) : r \in Range(b)} =
              {p \in {Person(r) : r \in Range(l)} : p.staffing_status \in Beach}
        /\ Len(b) = Cardinality(Range(b))

\* GET /beach has answered a Person while a staffed Person is stored.
C8_Witness ==
    /\ resp.op = "get_people_on_beach"
    /\ resp.count = 1
    /\ \E i \in DOMAIN people : people[i].staffing_status = "staffed"
    /\ \E i \in DOMAIN people : people[i].staffing_status = "available"

----------------------------------------------------------------------------
(* C9 *)

\* C9: GET /beach answers from the table as committed: its Persons are the
\* stored rows with status bench or available.  Right after the commit of a
\* create with such a status the beach query holds the new Person; right after
\* the commit of an update to staffed it does not hold that Person; right after
\* the commit of an update from staffed to bench or available it does.
C9_BeachReflectsCommits ==
    [][/\ resp'.op = "get_people_on_beach" =>
             Range(resp'.people) = {Person(people'[i]) : i \in OnBeach(people')}
       /\ \A c \in Clients :
             /\ (InsertCommits(c) /\ people'[seq'].staffing_status \in Beach) =>
                   \A b \in BeachRows(people') : \E r \in Range(b) : r.id = seq'
             /\ (/\ UpdateCommits(c)
                 /\ local[c].person_id \in DOMAIN people
                 /\ local[c].patch.staffing_status = {"staffed"}) =>
                   \A b \in BeachRows(people') :
                       \A r \in Range(b) : r.id # local[c].person_id
             /\ (/\ UpdateCommits(c)
                 /\ local[c].person_id \in DOMAIN people
                 /\ people[local[c].person_id].staffing_status = "staffed"
                 /\ local[c].patch.staffing_status \subseteq Beach
                 /\ local[c].patch.staffing_status # {}) =>
                   \A b \in BeachRows(people') :
                       \E r \in Range(b) : r.id = local[c].person_id]_vars

\* A PUT that set a Person to staffed has answered 200, and the Person is not
\* among the rows of the beach query.
C9_Witness ==
    /\ resp.op = "update_person"
    /\ resp.status = 200
    /\ \E p \in resp.person : p.staffing_status = "staffed" /\ p.updated_at > p.created_at
    /\ resp.id \in DOMAIN people
    /\ resp.id \notin OnBeach(people)
    /\ OnBeach(people) # {}

----------------------------------------------------------------------------
(* C10 *)

\* C10: a list of Persons is ordered by created_at descending, and Persons
\* with equal created_at by insertion (rowid) order.
C10_ListOrderTiesByInsertion ==
    resp.op \in {"get_all_people", "svc_get_all_people", "get_people_on_beach"} =>
        \A i, j \in 1..Len(resp.people) :
            i < j =>
               \/ resp.people[i].created_at > resp.people[j].created_at
               \/ /\ resp.people[i].created_at = resp.people[j].created_at
                  /\ resp.people[i].id < resp.people[j].id

----------------------------------------------------------------------------
(* C11 *)

\* A text field as the specification refuses it: empty, blank, or longer than
\* 100 characters.
MalformedText(v) ==
    \/ Len(v) = 0
    \/ \A i \in 1..Len(v) : v[i] = " "
    \/ Len(v) > 100

\* A create body the specification refuses.
MalformedCreate(raw) ==
    \/ MalformedText(raw.name)
    \/ MalformedText(raw.role)
    \/ MalformedText(raw.department)
    \/ raw.staffing_status \notin {"staffed", "bench", "available"}

\* No body the PersonCreate model accepts is one the specification refuses.
AcceptedCreatesWellFormed ==
    \A raw \in Wide.validCreates \cup Narrow.validCreates : ~MalformedCreate(raw)

\* C11: a create whose name, role or department is empty, blank or longer
\* than 100 characters, or whose status is not one of the three, is refused
\* and persists nothing: no INSERT is ever made from such a body, every reply
\* to such a body is a validation error, and the step that refuses a body
\* leaves the table and the rowid sequence as they were.
C11_InvalidCreatePersistsNothing ==
    [][/\ \A f \in fresh' : ~MalformedCreate(f.input)
       /\ (resp'.op = "create_person" /\ resp'.body # {}) =>
             /\ resp'.status \in {400, 422}
             /\ resp'.person = {}
             /\ people' = people
             /\ seq' = seq
       /\ \A c \in Clients :
             InsertCommits(c) => \E f \in fresh' : f.id = seq' /\ ~MalformedCreate(f.input)
       /\ AcceptedCreatesWellFormed]_vars

\* A create with a blank name has been refused while a Person is stored.
C11_Witness ==
    /\ resp.op = "create_person"
    /\ resp.status = 422
    /\ \E raw \in resp.body : raw.name = <<" ", " ">>
    /\ DOMAIN people # {}

----------------------------------------------------------------------------
(* C12 *)

\* C12: every validation error of POST /people and PUT /people/{id} (a body
\* the request model refuses, or an update that names no field) is answered
\* with status 400.
C12_ValidationErrorIs400 ==
    (/\ resp.op \in {"create_person", "update_person"}
     /\ \/ resp.body # {}
        \/ resp.status \in {400, 422}) =>
        resp.status = 400

----------------------------------------------------------------------------
(* C13 *)

\* C13: an update of an existing id whose patch names no field is refused and
\* leaves the row as it was, updated_at included: the 400 of PUT /people/{id}
\* changes nothing, and no update_person, of the router or of PeopleService,
\* commits a change for such a patch.
C13_ZeroFieldUpdateChangesNothing ==
    [][/\ (resp'.op = "update_person" /\ resp'.status = 400) => people' = people
       /\ \A c \in Clients :
             (UpdateCommits(c) /\ NoFields(local[c].patch)) => people' = people]_vars

----------------------------------------------------------------------------
(* C14 *)

\* C14: every stored row has staffing_status staffed, bench or available, and
\* a create or update that sends another value is refused and leaves the
\* table as it was.
C14_StatusAlwaysOneOfThree ==
    [][/\ \A i \in DOMAIN people' :
             people'[i].staffing_status \in {"staffed", "bench", "available"}
       /\ (/\ resp'.op = "create_person"
           /\ \E raw \in resp'.body :
                 raw.staffing_status \notin {"staffed", "bench", "available"}) =>
             resp'.status \in {400, 422} /\ people' = people
       /\ (/\ resp'.op = "update_person"
           /\ \E raw \in resp'.body :
                 \E v \in raw.staffing_status : v \notin {"staffed", "bench", "available"}) =>
             resp'.status \in {400, 422} /\ people' = people]_vars

\* A PUT that sent the status vacation has been refused; the table holds rows
\* of two different statuses.
C14_Witness ==
    /\ resp.op = "update_person"
    /\ resp.status = 422
    /\ \E raw \in resp.body : raw.staffing_status = {"vacation"}
    /\ Cardinality({people[i].staffing_status : i \in DOMAIN people}) = 2

----------------------------------------------------------------------------
(* C15 *)

\* Text as the specification stores it: not empty, no blank at either end, at
\* most 100 characters.
TrimmedText(v) ==
    /\ Len(v) >= 1
    /\ Len(v) <= 100
    /\ v[1] # " "
    /\ v[Len(v)] # " "

\* C15: every stored name, role and department is non-empty, trimmed and at
\* most 100 characters long, and an update that sends an empty, blank or
\* over-long value for one of them is refused and changes nothing.
C15_StoredTextTrimmed ==
    [][/\ \A i \in DOMAIN people' :
             /\ TrimmedText(people'[i].name)
             /\ TrimmedText(people'[i].role)
             /\ TrimmedText(people'[i].department)
       /\ (/\ resp'.op = "update_person"
           /\ \E raw \in resp'.body :
                 \E v \in raw.name \cup raw.role \cup raw.department : MalformedText(v)) =>
             resp'.status \in {400, 422} /\ resp'.person = {} /\ people' = people
       /\ \A c \in Clients :
             UpdateCommits(c) =>
                \A v \in local[c].patch.name \cup local[c].patch.role
                           \cup local[c].patch.department : TrimmedText(v)]_vars

\* A PUT that sent a blank name has been refused, and a Person whose name was
\* sent with blanks around it is stored without them.
C15_Witness ==
    /\ resp.op = "update_person"
    /\ resp.status = 422
    /\ \E raw \in resp.body : raw.name = {<<" ", " ">>}
    /\ \E i \in DOMAIN people : people[i].name = <<"B">> /\ people[i].role = <<"E">>

----------------------------------------------------------------------------
(* C16 *)

\* C16: an id denotes at most one Person over the whole history: the row
\* stored under an id carries that id, no step changes the id of a row that
\* stays, and a row that appears takes an id larger than every id assigned
\* before (so never the id of a deleted Person).
C16_IdDenotesOnePerson ==
    [][/\ \A i \in DOMAIN people' : people'[i].id = i
       /\ \A i \in DOMAIN people' : i <= seq'
       /\ \A i \in DOMAIN people' \ DOMAIN people : i > seq
       /\ seq' >= seq
       /\ \A c \in Clients :
             InsertCommits(c) => local'[c].person_id > seq]_vars

\* A Person has been created after the Person of a smaller id was deleted.
C16_Witness ==
    /\ resp.op = "create_person"
    /\ resp.status = 201
    /\ resp.id = 2
    /\ DOMAIN people = {2}

----------------------------------------------------------------------------
(* C17 *)

\* C17: whenever a create, update or delete request ends in an error
\* response, at whatever step of the handler, the table is as it was when the
\* request began.
C17_ErrorMeansNothingChanged ==
    [][\A c \in Clients :
          (/\ resp'.op \in {"create_person", "update_person", "delete_person"}
           /\ resp'.status >= 400
           /\ pc'[c] = "idle") =>
             IF pc[c] = "idle" THEN people' = people
             ELSE local[c].began = {people'}]_vars

----------------------------------------------------------------------------
(* C18 *)

\* The name holds a slash, a backslash or two dots in a row.
NamesAPath(n) ==
    \/ \E i \in 1..Len(n) : n[i] \in {"/", "\\"}
    \/ \E i \in 1..(Len(n) - 1) : n[i] = "." /\ n[i + 1] = "."

\* C18: GET /docs/{filename} and GET /docs/{filename}/info answer 400 to every
\* file name that holds '/', '\' or '..', whatever its extension and whether
\* or not it is listed, and make no filesystem call before they do.
C18_TraversalRefusedFirst ==
    (doc.op \in {"get_document", "get_document_info"} /\ NamesAPath(doc.filename)) =>
        /\ doc.status = 400
        /\ doc.ops = <<>>
        /\ doc.served = {}

\* The info of a name with a slash and an extension not allowed has been
\* refused with 400.
C18_Witness ==
    /\ doc.op = "get_document_info"
    /\ doc.filename = <<"x", "/", "y", ".", "e", "x", "e">>
    /\ doc.status = 400

----------------------------------------------------------------------------
(* C19 *)

\* The extension of a name: from its last dot on, a dot that is neither the
\* first nor the last character; lower-cased.
ExtensionAllowed(n) ==
    \E i \in 2..(Len(n) - 1) :
        /\ n[i] = "."
        /\ \A j \in (i + 1)..Len(n) : n[j] # "."
        /\ Lower(SubSeq(n, i, Len(n))) \in
              {<<".", "m", "d">>, <<".", "t", "x", "t">>, <<".", "p", "d", "f">>,
               <<".", "d", "o", "c">>, <<".", "d", "o", "c", "x">>}

Listed == {EmployeeHandbook, CodeOfConduct, SecurityPolicy}

\* C19: GET /docs/{filename} answers 200 only to a name without '/', '\' or
\* '..', with an allowed extension, listed in AVAILABLE_DOCUMENTS, that is a
\* regular file inside the policies directory; the file sent is that file,
\* and no other request of the router sends a file.
C19_ServesOnlyListedFilesInside ==
    /\ (doc.op = "get_document" /\ doc.status = 200) =>
          /\ ~NamesAPath(doc.filename)
          /\ ExtensionAllowed(doc.filename)
          /\ doc.filename \in Listed
          /\ fs[doc.filename] = "file"
          /\ doc.served = {[name |-> doc.filename, kind |-> "file"]}
    /\ doc.served # {} => doc.op = "get_document" /\ doc.status = 200
    /\ \A f \in doc.served : f.name \in Listed /\ f.kind = "file"

\* A listed document has been served while another listed name is a link to a
\* file outside the directory and an unlisted file lies in the directory.
C19_Witness ==
    /\ doc.op = "get_document"
    /\ doc.status = 200
    /\ doc.filename = EmployeeHandbook
    /\ fs[CodeOfConduct] = "link_out"
    /\ fs[Notes] = "file"

----------------------------------------------------------------------------
(* C20 *)

\* C20: GET /docs/{filename} refuses in a fixed order: a name with '/', '\'
\* or '..' 400; else an extension not allowed 403; else a name not listed
\* 404; else a name missing on disk 404, one that is no regular file 403, one
\* that resolves outside the directory 403; else 200.
C20_RefusalPrecedence ==
    doc.op = "get_document" =>
        doc.status =
           IF NamesAPath(doc.filename) THEN 400
           ELSE IF ~ExtensionAllowed(doc.filename) THEN 403
           ELSE IF doc.filename \notin Listed THEN 404
           ELSE IF fs[doc.filename] = "missing" THEN 404
           ELSE IF fs[doc.filename] = "dir" THEN 403
           ELSE IF fs[doc.filename] = "link_out" THEN 403
           ELSE 200

\* A name with an extension not allowed, and not listed either, has been
\* refused with 403.
C20_Witness ==
    /\ doc.op = "get_document"
    /\ doc.filename = <<"x", ".", "e", "x", "e">>
    /\ doc.status = 403
    /\ \E n \in Listed : fs[n] = "dir"

----------------------------------------------------------------------------
(* C21 *)

\* C21: GET /docs/{filename}/info is accepted exactly when GET
\* /docs/{filename} is accepted in the same state of the policies directory,
\* and when both refuse they refuse with the same status.
C21_InfoValidatesAsGet ==
    doc.op = "get_document_info" =>
        doc.status = GetDocument(doc.filename, fs).status

----------------------------------------------------------------------------
(* C22 *)

\* C22: GET /docs lists exactly the names of AVAILABLE_DOCUMENTS that are
\* files of the policies directory, each with its description: no unlisted
\* file, no listed name missing from disk; and GET /docs/{filename} accepts
\* every name it lists, in the same state of the directory.
C22_ListsWhatGetServes ==
    (doc.op = "list_available_documents" /\ doc.status = 200) =>
        /\ DOMAIN doc.documents = {n \in Listed : fs[n] \in {"file", "link_out"}}
        /\ \A n \in DOMAIN doc.documents :
              /\ doc.documents[n] = AVAILABLE_DOCUMENTS[n]
              /\ GetDocument(n, fs).status = 200

----------------------------------------------------------------------------
(* C23 *)

\* The value of a field after two commits: the later update's if it gave
\* the field, else the earlier update's if that one gave it, else what the
\* row had before both.
LastCommitWins(last, first, before) ==
    IF last # {} THEN last ELSE IF first # {} THEN first ELSE {before}

\* Client d's update_person for the id is in flight and its UPDATE is the
\* latest commit on the row: the row shows what it wrote.
CommittedBefore(d, id) ==
    /\ pc[d] = "update_reread"
    /\ local[d].person_id = id
    /\ id \in DOMAIN people
    /\ people[id].updated_at = local[d].updated_at
    /\ local[d].patch.name \subseteq {people[id].name}
    /\ local[d].patch.staffing_status \subseteq {people[id].staffing_status}

\* C23: when an update_person commits its UPDATE after another update_person
\* in flight for the same id has committed its own, each field of the row
\* holds the value of the later commit if that update gave the field, else the
\* value of the earlier commit if that one gave it, else the value it had;
\* and updated_at is the time the later commit wrote, whichever of the two
\* read the clock last.
C23_LastCommitWins ==
    [][\A c, d \in Clients :
          (c # d /\ UpdateCommits(c) /\ CommittedBefore(d, local[c].person_id)) =>
             LET id == local[c].person_id
                 last == local[c].patch
                 first == local[d].patch
             IN  /\ id \in DOMAIN people'
                 /\ people'[id].updated_at = local[c].updated_at
                 /\ people'[id].name \in
                       LastCommitWins(last.name, first.name, people[id].name)
                 /\ people'[id].staffing_status \in
                       LastCommitWins(last.staffing_status, first.staffing_status,
                                      people[id].staffing_status)
                 /\ people'[id].role = people[id].role
                 /\ people'[id].department = people[id].department]_vars

\* Two updates of one Person have both committed: the one that committed last
\* read the clock first and gave only a status; the other gave a name and
\* another status.  The row has the later commit's status and time and the
\* earlier commit's name.
C23_Witness ==
    \E c, d \in Clients :
        /\ c # d
        /\ pc[c] = "update_reread" /\ pc[d] = "update_reread"
        /\ local[c].person_id = local[d].person_id
        /\ local[c].person_id \in DOMAIN people
        /\ local[c].patch.name = {} /\ local[c].patch.staffing_status = {"staffed"}
        /\ local[d].patch.name = {<<"B">>}
        /\ local[d].patch.staffing_status = {"available"}
        /\ local[c].updated_at < local[d].updated_at
        /\ LET row == people[local[c].person_id]
           IN  /\ row.staffing_status = "staffed"
               /\ row.name = <<"B">>
               /\ row.updated_at = local[c].updated_at

----------------------------------------------------------------------------
(* C24 *)

\* C24: every answer of a handler of the people and beach routers that is an
\* error (404, 400, 422, 500) carries the keys of the envelope of the
\* successes, "success" with the value false and "message".
C24_ErrorsUseTheEnvelope ==
    resp.status >= 400 =>
        /\ {"success", "message"} \subseteq resp.keys
        /\ resp.success = {FALSE}

----------------------------------------------------------------------------
(* C25 *)

\* A step of init_database by client c.
InitDatabaseSteps(c) ==
    /\ pc[c] \in {"idle", "init_status_index", "init_department_index", "init_commit"}
    /\ pc'[c] \in {"init_status_index", "init_department_index", "init_commit", "idle"}
    /\ pc'[c] # pc[c]

\* C25: a run of init_database, from whatever database file it finds, ends
\* with the people table and both indexes, with every row (and the sequence)
\* of a table it found as it was; and a run that starts where a run ended
\* changes nothing at any of its steps.
C25_InitDatabaseIdempotent ==
    [][\A c \in Clients :
          /\ (pc[c] = "init_commit" /\ pc'[c] = "idle") =>
                /\ schema' = {"people", "idx_people_staffing_status",
                              "idx_people_department"}
                /\ \A db \in local[c].began :
                      /\ db.schema \subseteq schema'
                      /\ people' = db.people
                      /\ "people" \in db.schema => seq' = db.seq
          /\ (InitDatabaseSteps(c) /\ Cardinality(schema) = 3) =>
                /\ schema' = schema
                /\ people' = people
                /\ seq' = seq]_vars

\* A run that found the table with two rows and one index missing has
\* executed its statements: the index is there and the rows are as found.
C25_Witness ==
    /\ pc["c1"] = "init_commit"
    /\ Cardinality(schema) = 3
    /\ DOMAIN people = {1, 2}
    /\ \E db \in local["c1"].began :
          /\ db.schema = {"people", "idx_people_department"}
          /\ db.people = people

----------------------------------------------------------------------------
(* C26 *)

\* C26: an update_person whose body the request model accepts ends in 200
\* with the updated Person, in 404 or in 400, never in 500, however its steps
\* interleave with a delete_person of the same id.
C26_UpdateNeverUnexpected ==
    (resp.op = "update_person" /\ resp.body = {}) =>
        /\ resp.status \in {200, 404, 400}
        /\ resp.status = 200 => resp.person # {}

----------------------------------------------------------------------------
(* C27 *)

\* C27: of the delete_person requests for one id, only the one whose DELETE
\* statement removes the row answers 200: a request that answers 200 finds
\* the row still stored when its DELETE runs, so no Person is reported
\* deleted twice, however the reads and the DELETEs interleave.
C27_OneDeleteSucceeds ==
    [][\A c \in Clients :
          (pc[c] = "delete_write" /\ pc'[c] = "idle"
              /\ resp'.op = "delete_person" /\ resp'.status = 200) =>
             local[c].person_id \in DOMAIN people]_vars

----------------------------------------------------------------------------
(* C28 *)

\* C28: a PUT /people/{person_id} whose body names no field is answered 404
\* when no row has the id and 400 when one has, and the step that answers
\* leaves the table and its sequence as they were.
C28_NotFoundBeforeNoFields ==
    [][(resp'.op = "update_person" /\ resp'.no_fields = {TRUE}) =>
          /\ resp'.status = IF resp'.id \in DOMAIN people THEN 400 ELSE 404
          /\ people' = people
          /\ seq' = seq]_vars

\* An update that named no field, for an id without a row, has been answered
\* 404 while another Person is stored.
C28_Witness ==
    /\ resp.op = "update_person"
    /\ resp.no_fields = {TRUE}
    /\ resp.status = 404
    /\ resp.id \notin DOMAIN people
    /\ DOMAIN people # {}

====
